---- MODULE Spec2Model ----
(***************************************************************************)
(* BrokerDashboard (src/components/BrokerDashboard.tsx): the daily-entry   *)
(* form with its draft cache, the single-day / bulk / delete write paths,  *)
(* the ledger fold (entriesWithCalculatedBalances) and the monthly         *)
(* aggregation (monthlySummary).                                           *)
(*                                                                         *)
(* Dates are <<year, month, day>> triples: the source's "YYYY-MM-DD"       *)
(* strings are zero padded, so the string comparisons of the source are    *)
(* the lexicographic comparisons of the triples.  A JS Date is its epoch   *)
(* time counted in hours.  localStorage keys are                           *)
(* draft_entry_<brokerName>_<date>; the broker is fixed while the          *)
(* component is mounted, so a key is modelled by its date.                 *)
(***************************************************************************)
EXTENDS Integers, Sequences, FiniteSets, TLC

VARIABLES
    tz,               \* the browser's UTC offset in hours (local = UTC + tz)
    today,            \* getTodayString()
    initialLeads,     \* profile.initialLeads
    dailyEntries,     \* profile.dailyEntries, in stored order
    localStorage,     \* the draft cache: date -> stored string
    dailyData,        \* form state
    selectedDate,
    selectedMonth,
    errors,           \* the fields whose errors[field] is true
    isDraft,
    dateToDelete,
    showBulkEditModal,
    bulkStartDate,
    bulkEndDate,
    bulkDailyData,    \* field -> number | ''  (a partial map)
    bulkErrors,
    loadDue,          \* the load effect's dependencies changed in the last render
    saveDue,          \* the save-draft effect's dependencies changed
    loadedFrom,       \* history: the branch the load effect took last
    lastOp,           \* history: the last handler and the calls it issued
    edits,            \* history: number of field inputs so far
    moves,            \* history: number of date-picker changes so far
    commits,          \* history: number of accepted commits and deletes so far
    uncorrected       \* history: the <<date, field>> whose last input in the
                      \* form of that date was negative, until the form of
                      \* that date is committed or discarded

vars == <<tz, today, initialLeads, dailyEntries, localStorage, dailyData,
          selectedDate, selectedMonth, errors, isDraft, dateToDelete,
          showBulkEditModal, bulkStartDate, bulkEndDate, bulkDailyData,
          bulkErrors, loadDue, saveDue, loadedFrom, lastOp, edits, moves,
          commits, uncorrected>>

----------------------------------------------------------------------------
(* Bounds *)

MaxEdits == 2
MaxMoves == 1
MaxCommits == 2
MaxEntries == 3

----------------------------------------------------------------------------
(* Fields *)

fieldOrder ==
    <<"newLeads", "discardedLeads", "repiqueLeads", "localVisits",
      "contactingLeads", "inProgressLeads", "scheduledLeads",
      "negotiationLeads", "creditAnalysisLeads", "approvedLeads",
      "signedLeads">>

Counters == {fieldOrder[i] : i \in DOMAIN fieldOrder}

initialState ==
    [newLeads |-> 0, discardedLeads |-> 0, repiqueLeads |-> 0,
     localVisits |-> 0, contactingLeads |-> 0, inProgressLeads |-> 0,
     scheduledLeads |-> 0, negotiationLeads |-> 0, creditAnalysisLeads |-> 0,
     approvedLeads |-> 0, signedLeads |-> 0, discardReason |-> ""]

\* A value of a number input (number | ''): <<>> is '', <<n>> is the number n.
\* '' of a cleared date input and null of dateToDelete: the empty triple.
NoDate == <<>>

----------------------------------------------------------------------------
(* Dates *)

\* a < b on "YYYY-MM-DD" strings
StrLess(a, b) ==
    \/ a[1] < b[1]
    \/ a[1] = b[1] /\ a[2] < b[2]
    \/ a[1] = b[1] /\ a[2] = b[2] /\ a[3] < b[3]

\* days since 1970-01-01 of a civil date (what Date parsing computes)
DaysFromCivil(date) ==
    LET y   == IF date[2] <= 2 THEN date[1] - 1 ELSE date[1]
        era == y \div 400
        yoe == y - era * 400
        mp  == IF date[2] > 2 THEN date[2] - 3 ELSE date[2] + 9
        doy == (153 * mp + 2) \div 5 + date[3] - 1
        doe == yoe * 365 + yoe \div 4 - yoe \div 100 + doy
    IN  era * 146097 + doe - 719468

\* the civil date of a day number (what Date formatting computes)
CivilFromDays(days) ==
    LET z   == days + 719468
        era == z \div 146097
        doe == z - era * 146097
        yoe == (doe - doe \div 1460 + doe \div 36524 - doe \div 146096) \div 365
        doy == doe - (365 * yoe + yoe \div 4 - yoe \div 100)
        mp  == (5 * doy + 2) \div 153
        d   == doy - (153 * mp + 2) \div 5 + 1
        m   == IF mp < 10 THEN mp + 3 ELSE mp - 9
        y   == yoe + era * 400 + (IF m <= 2 THEN 1 ELSE 0)
    IN  <<y, m, d>>

\* new Date("YYYY-MM-DD").getTime(): a date-only string is UTC midnight
getTime(date) == DaysFromCivil(date) * 24

\* new Date("YYYY-MM-DD" + 'T00:00:00'): a string without offset is local time
LocalMidnight(date, offset) == DaysFromCivil(date) * 24 - offset

\* d.toISOString().split('T')[0]: the UTC calendar date
toISODate(t) == CivilFromDays(t \div 24)

\* d.setDate(d.getDate() + 1): the next local calendar day, same local time
setDateNext(t, offset) ==
    LET local == t + offset
        day   == local \div 24
        hour  == local % 24
    IN  (day + 1) * 24 + hour - offset

\* "YYYY-MM" of a date, and entry.date.startsWith(month)
MonthOf(date) == <<date[1], date[2]>>
startsWith(date, month) == date[1] = month[1] /\ date[2] = month[2]

----------------------------------------------------------------------------
(* Sequences *)

Reverse(s) == [i \in 1..Len(s) |-> s[Len(s) + 1 - i]]

\* insert e into the sorted sequence s after every element not later than it
RECURSIVE InsertByDate(_, _)
InsertByDate(s, e) ==
    IF s = <<>> THEN <<e>>
    ELSE IF getTime(e.date) - getTime(Head(s).date) < 0
         THEN <<e>> \o s
         ELSE <<Head(s)>> \o InsertByDate(Tail(s), e)

\* variant of SortByDate that keeps the stored order
SortByDateStored(s) == s

\* [...entries].sort((a, b) => new Date(a.date).getTime() - new Date(b.date).getTime())
RECURSIVE SortByDate(_)
SortByDate(s) ==
    IF s = <<>> THEN <<>>
    ELSE InsertByDate(SortByDate(SubSeq(s, 1, Len(s) - 1)), s[Len(s)])

----------------------------------------------------------------------------
(* Ledger Builder *)

\* (entry.repiqueLeads || 0)
RepiqueOf(entry) ==
    IF "repiqueLeads" \in DOMAIN entry THEN entry.repiqueLeads ELSE 0

\* variant of EndOfDay that leaves the repique leads out
EndOfDayNoRepique(base, entry) ==
    base + entry.newLeads - entry.discardedLeads - entry.signedLeads

\* variant of EndOfDay that floors the balance at zero
EndOfDayClamped(base, entry) ==
    LET v == base + entry.newLeads + RepiqueOf(entry)
                  - entry.discardedLeads - entry.signedLeads
    IN  IF v < 0 THEN 0 ELSE v

\* currentLeadBase + entry.newLeads + (entry.repiqueLeads || 0)
\*                 - entry.discardedLeads - entry.signedLeads
EndOfDay(base, entry) ==
    base + entry.newLeads + RepiqueOf(entry)
         - entry.discardedLeads - entry.signedLeads

WithBalance(entry, startBal, endBal) ==
    [k \in DOMAIN entry \cup {"startOfDayBalance", "endOfDayBalance"} |->
        IF k = "startOfDayBalance" THEN startBal
        ELSE IF k = "endOfDayBalance" THEN endBal
        ELSE entry[k]]

\* variant of FoldBalances that never advances currentLeadBase
RECURSIVE FoldBalancesNoCarry(_, _)
FoldBalancesNoCarry(s, base) ==
    IF s = <<>> THEN <<>>
    ELSE <<WithBalance(Head(s), base, EndOfDay(base, Head(s)))>>
         \o FoldBalancesNoCarry(Tail(s), base)

\* the map over the chronological entries, threading currentLeadBase
RECURSIVE FoldBalances(_, _)
FoldBalances(s, base) ==
    IF s = <<>> THEN <<>>
    ELSE LET endBal == EndOfDay(base, Head(s))
         IN  <<WithBalance(Head(s), base, endBal)>>
             \o FoldBalances(Tail(s), endBal)

\* useMemo entriesWithCalculatedBalances: most recent first
BuildLedger(entries, initial) ==
    Reverse(FoldBalances(SortByDate(entries), initial))

entriesWithCalculatedBalances == BuildLedger(dailyEntries, initialLeads)

----------------------------------------------------------------------------
(* Monthly Aggregator *)

\* variant of MonthBase that starts every month from profile.initialLeads
MonthBaseNoCarry(s, base, month) == base

\* variant of MonthBase that also folds the entry of the month's first day
RECURSIVE MonthBaseInclusive(_, _, _)
MonthBaseInclusive(s, base, month) ==
    IF s = <<>> THEN base
    ELSE IF ~StrLess(<<month[1], month[2], 1>>, Head(s).date)
         THEN MonthBaseInclusive(Tail(s), EndOfDay(base, Head(s)), month)
         ELSE base

\* the for loop with its break: fold the entries before the month's first day
RECURSIVE MonthBase(_, _, _)
MonthBase(s, base, month) ==
    IF s = <<>> THEN base
    ELSE IF StrLess(Head(s).date, <<month[1], month[2], 1>>)
         THEN MonthBase(Tail(s), EndOfDay(base, Head(s)), month)
         ELSE base

\* monthEntries.reduce((sum, entry) => sum + entry[field], 0)
RECURSIVE ReduceSum(_, _)
ReduceSum(s, field) ==
    IF s = <<>> THEN 0
    ELSE (IF field = "repiqueLeads" THEN RepiqueOf(Head(s)) ELSE Head(s)[field])
         + ReduceSum(Tail(s), field)

\* variant of MonthEntries without the filter
MonthEntriesUnfiltered(chron, month) == chron

\* chronologicalEntries.filter(entry => entry.date.startsWith(selectedMonth))
MonthEntries(chron, month) ==
    LET InMonth(e) == startsWith(e.date, month)
    IN  SelectSeq(chron, InMonth)

\* variant of FinalLeads that leaves the signed contracts in the balance
FinalLeadsNoSigned(base, totalIn, discarded, signed) ==
    base + totalIn - discarded

\* currentLeadBaseForMonth + totalLeadsIn - discardedLeads - signedLeads
FinalLeads(base, totalIn, discarded, signed) ==
    base + totalIn - discarded - signed

\* A decimal string with one fractional digit, "whole.tenth", is the pair
\* <<whole, tenth>>.
\* variant of toFixed1 that cuts the further digits off
toFixed1Truncated(signed, totalIn) ==
    LET n == (1000 * signed) \div totalIn
    IN  <<n \div 10, n % 10>>

\* ((signedLeads / totalLeadsIn) * 100).toFixed(1): the one-digit decimal
\* nearest to the number, the larger one on a tie.  The double differs from
\* the exact quotient by less than 10^-12, which moves the nearest tenth only
\* when the quotient is on a tie; a tie needs totalLeadsIn to be a multiple
\* of 16, and for totalLeadsIn = 16 the double is exact.
toFixed1(signed, totalIn) ==
    LET n == (2000 * signed + totalIn) \div (2 * totalIn)
    IN  <<n \div 10, n % 10>>

\* totalLeadsIn > 0 ? (...).toFixed(1) : "0.0"
ConversionRate(signed, totalIn) ==
    IF totalIn > 0 THEN toFixed1(signed, totalIn) ELSE <<0, 0>>

\* useMemo monthlySummary
SummarizeMonth(entries, initial, month) ==
    LET chron     == SortByDate(entries)
        base      == MonthBase(chron, initial, month)
        monthEnts == MonthEntries(chron, month)
        new       == ReduceSum(monthEnts, "newLeads")
        repique   == ReduceSum(monthEnts, "repiqueLeads")
        signed    == ReduceSum(monthEnts, "signedLeads")
        discarded == ReduceSum(monthEnts, "discardedLeads")
        nego      == ReduceSum(monthEnts, "negotiationLeads")
        totalIn   == new + repique
    IN  [newLeads |-> new, repiqueLeads |-> repique, signedLeads |-> signed,
         discardedLeads |-> discarded, negotiationLeads |-> nego,
         conversionRate |-> ConversionRate(signed, totalIn),
         initialLeadsForMonth |-> base,
         finalLeadsForMonth |-> FinalLeads(base, totalIn, discarded, signed)]

monthlySummary == SummarizeMonth(dailyEntries, initialLeads, selectedMonth)

----------------------------------------------------------------------------
(* The memos as they run on arrays.  Array.prototype.sort and reverse       *)
(* reorder the array they are called on; a spread, map or filter makes a    *)
(* new array.  A heap maps each array in play to its present content;       *)
(* "profile" is profile.dailyEntries.                                       *)

\* a new array enters the heap
NewArray(heap, ref, content) ==
    [r \in DOMAIN heap \cup {ref} |-> IF r = ref THEN content ELSE heap[r]]

\* an array of the heap is reordered in place
InPlace(heap, ref, content) == [heap EXCEPT ![ref] = content]

\* variant of LedgerMemo that sorts profile.dailyEntries itself
LedgerMemoNoCopy(heap, initial) ==
    LET sorted == InPlace(heap, "profile", SortByDate(heap.profile))
        copied == NewArray(sorted, "chronologicalEntries", sorted.profile)
        mapped == NewArray(copied, "entriesWithBalance",
                           FoldBalances(copied.chronologicalEntries, initial))
    IN  InPlace(mapped, "entriesWithBalance",
                Reverse(mapped.entriesWithBalance))

\* useMemo entriesWithCalculatedBalances; its value is entriesWithBalance
LedgerMemo(heap, initial) ==
    LET copied == NewArray(heap, "chronologicalEntries", heap.profile)
        sorted == InPlace(copied, "chronologicalEntries",
                          SortByDate(copied.chronologicalEntries))
        mapped == NewArray(sorted, "entriesWithBalance",
                           FoldBalances(sorted.chronologicalEntries, initial))
    IN  InPlace(mapped, "entriesWithBalance",
                Reverse(mapped.entriesWithBalance))

\* useMemo reportEntries, run on the heap the ledger memo left
ReportMemo(heap, month) ==
    LET filtered == NewArray(heap, "reportEntries",
                             SelectSeq(heap.entriesWithBalance,
                                       LAMBDA e : startsWith(e.date, month)))
    IN  InPlace(filtered, "reportEntries",
                SortByDate(filtered.reportEntries))

reportEntries ==
    ReportMemo(LedgerMemo([profile |-> dailyEntries], initialLeads),
               selectedMonth).reportEntries

----------------------------------------------------------------------------
(* Entry Store: the parent's onSaveEntry / onDeleteEntry change              *)
(* profile.dailyEntries (insert or full replace keyed by date; delete by     *)
(* date) and hand the component a new array.                                 *)

HasEntry(entries, date) == \E i \in DOMAIN entries : entries[i].date = date

\* profile.dailyEntries.find(e => e.date === date): the first match
FindEntry(entries, date) ==
    entries[CHOOSE i \in DOMAIN entries :
                /\ entries[i].date = date
                /\ \A j \in 1..(i - 1) : entries[j].date # date]

onSaveEntry(entries, entry) ==
    IF HasEntry(entries, entry.date)
    THEN [i \in DOMAIN entries |->
             IF entries[i].date = entry.date THEN entry ELSE entries[i]]
    ELSE Append(entries, entry)

onDeleteEntry(entries, date) ==
    LET Keep(e) == e.date # date
    IN  SelectSeq(entries, Keep)

----------------------------------------------------------------------------
(* Draft Cache: localStorage and JSON *)

FormKeys == fieldOrder \o <<"discardReason">>

\* JSON.stringify(dailyData): the object's key/value pairs as text
JSONstringify(obj) ==
    LET keys == SelectSeq(FormKeys, LAMBDA k : k \in DOMAIN obj)
    IN  [wellFormed |-> TRUE,
         pairs |-> [i \in DOMAIN keys |-> <<keys[i], obj[keys[i]]>>]]

\* JSON.parse(text) throws on text that is not JSON
JSONthrows(text) == ~text.wellFormed

JSONparse(text) ==
    LET idx(k) == CHOOSE i \in DOMAIN text.pairs : text.pairs[i][1] = k
    IN  [k \in {text.pairs[i][1] : i \in DOMAIN text.pairs} |->
            text.pairs[idx(k)][2]]

\* localStorage.getItem(key) is null when the key is absent
hasItem(storage, date) == date \in DOMAIN storage

setItem(storage, date, text) ==
    [k \in DOMAIN storage \cup {date} |->
        IF k = date THEN text ELSE storage[k]]

removeItem(storage, date) ==
    [k \in DOMAIN storage \ {date} |-> storage[k]]

\* const { date, ...formData } = existingEntry; { ...initialState, ...formData }
FormOfEntry(entry) ==
    [k \in (DOMAIN initialState) \cup (DOMAIN entry \ {"date"}) |->
        IF k \in DOMAIN entry THEN entry[k] ELSE initialState[k]]

\* the load effect's fallback: saved entry, else clean slate
LoadSaved(entries, date) ==
    IF HasEntry(entries, date)
    THEN [data |-> FormOfEntry(FindEntry(entries, date)),
          isDraft |-> FALSE, from |-> "entry"]
    ELSE [data |-> initialState, isDraft |-> FALSE, from |-> "default"]

\* variant of LoadEffect that prefers the saved entry to the draft
LoadEffectEntryFirst(storage, entries, date) ==
    IF HasEntry(entries, date) THEN LoadSaved(entries, date)
    ELSE IF hasItem(storage, date) /\ ~JSONthrows(storage[date])
    THEN [data |-> JSONparse(storage[date]), isDraft |-> TRUE, from |-> "draft"]
    ELSE LoadSaved(entries, date)

\* useEffect "Load data: Check Draft -> Check Saved Entry -> Default":
\* what it hands to setDailyData and setIsDraft
LoadEffect(storage, entries, date) ==
    IF hasItem(storage, date)
    THEN IF ~JSONthrows(storage[date])
         THEN [data |-> JSONparse(storage[date]), isDraft |-> TRUE,
               from |-> "draft"]
         ELSE [data |-> LoadSaved(entries, date).data, isDraft |-> FALSE,
               from |-> "corrupt"]
    ELSE LoadSaved(entries, date)

\* variant of SaveDraftEffect that writes a draft only where there is none
SaveDraftEffectOnce(storage, date, data) ==
    IF hasItem(storage, date) THEN storage
    ELSE setItem(storage, date, JSONstringify(data))

\* useEffect "Save Draft on Change": localStorage.setItem(draftKey, ...)
SaveDraftEffect(storage, date, data) ==
    setItem(storage, date, JSONstringify(data))

----------------------------------------------------------------------------
(* Inputs *)

TZOffsets == {-3, 1}
Today == <<2024, 1, 2>>
UserDates == {<<2023, 12, 31>>, <<2024, 1, 1>>, <<2024, 1, 2>>, <<2024, 1, 3>>}
Months == {<<2023, 10>>, <<2023, 11>>, <<2023, 12>>, <<2024, 1>>, <<2024, 2>>}
EditFields == {"newLeads", "discardedLeads"}
InputValues == {<<>>, <<-1>>, <<2>>}
BulkInputValues == {<<>>, <<-1>>, <<0>>, <<2>>}
Reasons == {"", "late"}

\* an entry as the parent stores it
Entry(date, new, discarded, repique, signed, reason) ==
    [k \in DOMAIN initialState \cup {"date"} |->
        CASE k = "date" -> date
          [] k = "newLeads" -> new
          [] k = "discardedLeads" -> discarded
          [] k = "repiqueLeads" -> repique
          [] k = "signedLeads" -> signed
          [] k = "discardReason" -> reason
          [] OTHER -> 0]

\* a record written before repiqueLeads existed
Legacy(entry) == [k \in DOMAIN entry \ {"repiqueLeads"} |-> entry[k]]

InitialStores ==
    { <<>>,
      << Legacy(Entry(<<2024, 1, 2>>, 2, 1, 0, 0, "dup")),
         Entry(<<2023, 12, 31>>, 1, 0, 1, 3, "") >> }

InitialDrafts ==
    { <<>>,
      setItem(<<>>, Today,
              JSONstringify([initialState EXCEPT !.newLeads = 1,
                                                 !.discardReason = "old"])),
      setItem(<<>>, Today, [wellFormed |-> FALSE, pairs |-> <<>>]) }

NoOp == [kind |-> "none", accepted |-> FALSE, calls |-> <<>>]

Quiescent == ~loadDue /\ ~saveDue

\* the pending negative inputs that remain when the forms of the dates D are
\* committed or discarded
NotOfDates(pending, D) == {p \in pending : p[1] \notin D}
NoModal == dateToDelete = NoDate /\ ~showBulkEditModal

----------------------------------------------------------------------------
(* Construction: the state of the first render, before its effects run *)

Init ==
    /\ tz \in TZOffsets
    /\ today = Today
    /\ initialLeads = 2
    /\ dailyEntries \in InitialStores
    /\ localStorage \in InitialDrafts
    /\ dailyData = initialState
    /\ selectedDate = today
    /\ selectedMonth = MonthOf(today)
    /\ errors = {}
    /\ isDraft = FALSE
    /\ dateToDelete = NoDate
    /\ showBulkEditModal = FALSE
    /\ bulkStartDate = today
    /\ bulkEndDate = today
    /\ bulkDailyData = <<>>
    /\ bulkErrors = {}
    /\ loadDue = TRUE
    /\ saveDue = TRUE
    /\ loadedFrom = "none"
    /\ lastOp = NoOp
    /\ edits = 0
    /\ moves = 0
    /\ commits = 0
    /\ uncorrected = {}

----------------------------------------------------------------------------
(* Effects.  React runs the effects of one render together, in declaration  *)
(* order, each with the values of that render; the state they set shows in  *)
(* the next render.  A handler runs only after the pending effects ran.     *)

RunEffects ==
    /\ loadDue \/ saveDue
    /\ LET load == LoadEffect(localStorage, dailyEntries, selectedDate)
       IN  /\ dailyData' = IF loadDue THEN load.data ELSE dailyData
           /\ errors' = IF loadDue THEN {} ELSE errors
           /\ loadedFrom' = IF loadDue THEN load.from ELSE loadedFrom
           /\ localStorage' =
                 IF saveDue
                 THEN SaveDraftEffect(localStorage, selectedDate, dailyData)
                 ELSE localStorage
           /\ isDraft' = IF saveDue THEN TRUE ELSE load.isDraft
    \* setDailyData always receives a new object: the save effect is due again
    /\ saveDue' = loadDue
    /\ loadDue' = FALSE
    /\ UNCHANGED <<uncorrected,
                   tz, today, initialLeads, dailyEntries, selectedDate,
                   selectedMonth, dateToDelete, showBulkEditModal,
                   bulkStartDate, bulkEndDate, bulkDailyData, bulkErrors,
                   lastOp, edits, commits,
                   moves>>

----------------------------------------------------------------------------
(* The daily form *)

Max(a, b) == IF a > b THEN a ELSE b

\* variant of Sanitized that stores the typed number as it is
SanitizedUnclamped(value) == IF value = <<>> THEN 0 ELSE value[1]

\* value === '' ? 0 : Math.max(0, value)
Sanitized(value) == IF value = <<>> THEN 0 ELSE Max(0, value[1])

IsNegative(value) == value # <<>> /\ value[1] < 0

handleNumberChange(field, value) ==
    /\ Quiescent /\ NoModal
    /\ edits < MaxEdits
    /\ errors' = IF IsNegative(value) THEN errors \cup {field}
                 ELSE errors \ {field}
    /\ dailyData' = [dailyData EXCEPT ![field] = Sanitized(value)]
    /\ saveDue' = TRUE
    /\ loadedFrom' = "edited"
    /\ lastOp' = NoOp
    /\ edits' = edits + 1
    /\ uncorrected' = IF IsNegative(value)
                      THEN uncorrected \cup {<<selectedDate, field>>}
                      ELSE uncorrected \ {<<selectedDate, field>>}
    /\ UNCHANGED <<tz, today, initialLeads, dailyEntries, localStorage,
                   selectedDate, selectedMonth, isDraft, dateToDelete,
                   showBulkEditModal, bulkStartDate, bulkEndDate,
                   bulkDailyData, bulkErrors, loadDue, commits,
                   moves>>

\* the textarea, rendered only while dailyData.discardedLeads > 0
handleDiscardReasonChange(text) ==
    /\ Quiescent /\ NoModal
    /\ edits < MaxEdits
    /\ dailyData.discardedLeads > 0
    /\ dailyData' = [dailyData EXCEPT !.discardReason = text]
    /\ saveDue' = TRUE
    /\ loadedFrom' = "edited"
    /\ lastOp' = NoOp
    /\ edits' = edits + 1
    /\ UNCHANGED <<uncorrected,
                   tz, today, initialLeads, dailyEntries, localStorage,
                   selectedDate, selectedMonth, errors, isDraft, dateToDelete,
                   showBulkEditModal, bulkStartDate, bulkEndDate,
                   bulkDailyData, bulkErrors, loadDue, commits,
                   moves>>

\* the date input's onChange and handleEditClick(entry)
setSelectedDate(date) ==
    /\ Quiescent /\ NoModal
    /\ moves < MaxMoves
    /\ moves' = moves + 1
    /\ date # selectedDate
    /\ selectedDate' = date
    /\ loadDue' = TRUE
    /\ saveDue' = TRUE
    /\ lastOp' = [kind |-> "setSelectedDate", accepted |-> FALSE,
                  calls |-> <<>>, from |-> selectedDate,
                  storage |-> localStorage, form |-> dailyData]
    /\ UNCHANGED <<uncorrected,
                   tz, today, initialLeads, dailyEntries, localStorage,
                   dailyData, selectedMonth, errors, isDraft, dateToDelete,
                   showBulkEditModal, bulkStartDate, bulkEndDate,
                   bulkDailyData, bulkErrors, loadedFrom, edits, commits>>

handleEditClick(i) == setSelectedDate(dailyEntries[i].date)

setSelectedMonth(month) ==
    /\ Quiescent /\ NoModal
    /\ month # selectedMonth
    /\ selectedMonth' = month
    /\ UNCHANGED <<uncorrected,
                   tz, today, initialLeads, dailyEntries, localStorage,
                   dailyData, selectedDate, errors, isDraft, dateToDelete,
                   showBulkEditModal, bulkStartDate, bulkEndDate,
                   bulkDailyData, bulkErrors, loadDue, saveDue, loadedFrom,
                   lastOp, edits, commits,
                   moves>>

\* variant of FinalData without the cleanup
FinalDataKeepReason(data) == data

\* "Clean discardReason if no discarded leads"
FinalData(data) ==
    IF data.discardedLeads = 0 THEN [data EXCEPT !.discardReason = ""]
    ELSE data

\* { ...finalData, date: selectedDate }
EntryWithDate(data, date) ==
    [k \in DOMAIN data \cup {"date"} |-> IF k = "date" THEN date ELSE data[k]]

SaveCall(entry) == [op |-> "onSaveEntry", date |-> entry.date, entry |-> entry]
RemoveCall(date) == [op |-> "removeItem", date |-> date]
DeleteCall(date) == [op |-> "onDeleteEntry", date |-> date]

SubmitRejected ==
    \/ selectedDate = NoDate
    \/ StrLess(today, selectedDate)
    \/ errors # {}

handleSubmit ==
    /\ Quiescent /\ NoModal
    /\ commits < MaxCommits
    /\ IF SubmitRejected
       THEN /\ lastOp' = [kind |-> "handleSubmit", accepted |-> FALSE,
                          calls |-> <<>>]
            /\ UNCHANGED <<dailyEntries, localStorage, isDraft, loadDue,
                           commits, uncorrected>>
       ELSE LET entry == EntryWithDate(FinalData(dailyData), selectedDate)
            IN  /\ dailyEntries' = onSaveEntry(dailyEntries, entry)
                /\ localStorage' = removeItem(localStorage, selectedDate)
                /\ isDraft' = FALSE
                /\ loadDue' = TRUE
                /\ commits' = commits + 1
                /\ lastOp' = [kind |-> "handleSubmit", accepted |-> TRUE,
                              calls |-> <<SaveCall(entry),
                                          RemoveCall(selectedDate)>>,
                              before |-> dailyEntries]
                /\ uncorrected' = NotOfDates(uncorrected, {selectedDate})
    /\ UNCHANGED <<tz, today, initialLeads, dailyData, selectedDate,
                   selectedMonth, errors, dateToDelete, showBulkEditModal,
                   bulkStartDate, bulkEndDate, bulkDailyData, bulkErrors,
                   saveDue, loadedFrom, edits,
                   moves>>

----------------------------------------------------------------------------
(* Delete *)

\* the history row's delete button: setDateToDelete(entry.date)
requestDelete(i) ==
    /\ Quiescent /\ NoModal
    /\ commits < MaxCommits
    /\ dateToDelete' = dailyEntries[i].date
    /\ lastOp' = NoOp
    /\ UNCHANGED <<uncorrected,
                   tz, today, initialLeads, dailyEntries, localStorage,
                   dailyData, selectedDate, selectedMonth, errors, isDraft,
                   showBulkEditModal, bulkStartDate, bulkEndDate,
                   bulkDailyData, bulkErrors, loadDue, saveDue, loadedFrom,
                   edits, commits,
                   moves>>

\* the dialog's Cancelar: setDateToDelete(null)
cancelDelete ==
    /\ Quiescent
    /\ dateToDelete # NoDate
    /\ dateToDelete' = NoDate
    /\ lastOp' = [kind |-> "cancelDelete", accepted |-> FALSE, calls |-> <<>>]
    /\ UNCHANGED <<uncorrected,
                   tz, today, initialLeads, dailyEntries, localStorage,
                   dailyData, selectedDate, selectedMonth, errors, isDraft,
                   showBulkEditModal, bulkStartDate, bulkEndDate,
                   bulkDailyData, bulkErrors, loadDue, saveDue, loadedFrom,
                   edits, commits,
                   moves>>

confirmDelete ==
    /\ Quiescent
    /\ dateToDelete # NoDate
    /\ dailyEntries' = onDeleteEntry(dailyEntries, dateToDelete)
    /\ localStorage' = removeItem(localStorage, dateToDelete)
    /\ dateToDelete' = NoDate
    /\ loadDue' = TRUE
    /\ commits' = commits + 1
    /\ lastOp' = [kind |-> "confirmDelete", accepted |-> TRUE,
                  calls |-> <<DeleteCall(dateToDelete),
                              RemoveCall(dateToDelete)>>,
                  before |-> dailyEntries]
    /\ uncorrected' = NotOfDates(uncorrected, {dateToDelete})
    /\ UNCHANGED <<tz, today, initialLeads, dailyData, selectedDate,
                   selectedMonth, errors, isDraft, showBulkEditModal,
                   bulkStartDate, bulkEndDate, bulkDailyData, bulkErrors,
                   saveDue, loadedFrom, edits,
                   moves>>

----------------------------------------------------------------------------
(* Bulk edit *)

openBulkEdit ==
    /\ Quiescent /\ NoModal
    /\ commits < MaxCommits
    /\ showBulkEditModal' = TRUE
    /\ lastOp' = NoOp
    /\ UNCHANGED <<uncorrected,
                   tz, today, initialLeads, dailyEntries, localStorage,
                   dailyData, selectedDate, selectedMonth, errors, isDraft,
                   dateToDelete, bulkStartDate, bulkEndDate, bulkDailyData,
                   bulkErrors, loadDue, saveDue, loadedFrom, edits, commits,
                   moves>>

cancelBulkEdit ==
    /\ Quiescent
    /\ showBulkEditModal
    /\ showBulkEditModal' = FALSE
    /\ bulkDailyData' = <<>>
    /\ bulkErrors' = {}
    /\ lastOp' = NoOp
    /\ UNCHANGED <<uncorrected,
                   tz, today, initialLeads, dailyEntries, localStorage,
                   dailyData, selectedDate, selectedMonth, errors, isDraft,
                   dateToDelete, bulkStartDate, bulkEndDate, loadDue, saveDue,
                   loadedFrom, edits, commits,
                   moves>>

setBulkStartDate(date) ==
    /\ Quiescent
    /\ showBulkEditModal
    /\ moves < MaxMoves
    /\ moves' = moves + 1
    /\ date # bulkStartDate
    /\ bulkStartDate' = date
    /\ lastOp' = NoOp
    /\ UNCHANGED <<uncorrected,
                   tz, today, initialLeads, dailyEntries, localStorage,
                   dailyData, selectedDate, selectedMonth, errors, isDraft,
                   dateToDelete, showBulkEditModal, bulkEndDate,
                   bulkDailyData, bulkErrors, loadDue, saveDue, loadedFrom,
                   edits, commits>>

setBulkEndDate(date) ==
    /\ Quiescent
    /\ showBulkEditModal
    /\ moves < MaxMoves
    /\ moves' = moves + 1
    /\ date # bulkEndDate
    /\ bulkEndDate' = date
    /\ lastOp' = NoOp
    /\ UNCHANGED <<uncorrected,
                   tz, today, initialLeads, dailyEntries, localStorage,
                   dailyData, selectedDate, selectedMonth, errors, isDraft,
                   dateToDelete, showBulkEditModal, bulkStartDate,
                   bulkDailyData, bulkErrors, loadDue, saveDue, loadedFrom,
                   edits, commits>>

handleBulkNumberChange(field, value) ==
    /\ Quiescent
    /\ showBulkEditModal
    /\ edits < MaxEdits
    /\ bulkErrors' = IF IsNegative(value) THEN bulkErrors \cup {field}
                     ELSE bulkErrors \ {field}
    /\ bulkDailyData' = [k \in DOMAIN bulkDailyData \cup {field} |->
                            IF k = field THEN value ELSE bulkDailyData[k]]
    /\ lastOp' = NoOp
    /\ edits' = edits + 1
    /\ UNCHANGED <<uncorrected,
                   tz, today, initialLeads, dailyEntries, localStorage,
                   dailyData, selectedDate, selectedMonth, errors, isDraft,
                   dateToDelete, showBulkEditModal, bulkStartDate,
                   bulkEndDate, loadDue, saveDue, loadedFrom, commits,
                   moves>>

\* typeof bulkDailyData[field] === 'number'
IsNumber(overrides, field) ==
    field \in DOMAIN overrides /\ overrides[field] # <<>>

\* existingEntry?.[field] ?? 0
ExistingOrZero(entries, date, field) ==
    IF HasEntry(entries, date) /\ field \in DOMAIN FindEntry(entries, date)
    THEN FindEntry(entries, date)[field]
    ELSE 0

\* variant of BulkCounter that treats an override of 0 as no override
BulkCounterIgnoreZero(entries, overrides, date, field) ==
    IF IsNumber(overrides, field) /\ overrides[field][1] # 0
    THEN overrides[field][1]
    ELSE ExistingOrZero(entries, date, field)

\* one of the eleven counter lines of updatedEntry
BulkCounter(entries, overrides, date, field) ==
    IF IsNumber(overrides, field) THEN overrides[field][1]
    ELSE ExistingOrZero(entries, date, field)

\* variant of BulkReason that resets the free text
BulkReasonEmpty(entries, date) == ""

\* existingEntry?.discardReason || ''
BulkReason(entries, date) ==
    IF HasEntry(entries, date)
       /\ "discardReason" \in DOMAIN FindEntry(entries, date)
    THEN FindEntry(entries, date).discardReason
    ELSE ""

updatedEntry(entries, overrides, date) ==
    [k \in Counters \cup {"date", "discardReason"} |->
        IF k = "date" THEN date
        ELSE IF k = "discardReason" THEN BulkReason(entries, date)
        ELSE BulkCounter(entries, overrides, date, k)]

\* the while loop's dateString values from currentDate up to endDate
RECURSIVE LoopDates(_, _, _)
LoopDates(currentDate, endDate, offset) ==
    IF currentDate <= endDate
    THEN <<toISODate(currentDate)>>
         \o LoopDates(setDateNext(currentDate, offset), endDate, offset)
    ELSE <<>>

\* new Date(bulkStartDate + 'T00:00:00') ... new Date(bulkEndDate + 'T00:00:00')
BulkDates(start, end, offset) ==
    LoopDates(LocalMidnight(start, offset), LocalMidnight(end, offset), offset)

RECURSIVE SaveAll(_, _)
SaveAll(entries, written) ==
    IF written = <<>> THEN entries
    ELSE SaveAll(onSaveEntry(entries, Head(written)), Tail(written))

RECURSIVE RemoveAll(_, _)
RemoveAll(storage, dates) ==
    IF dates = <<>> THEN storage
    ELSE RemoveAll(removeItem(storage, Head(dates)), Tail(dates))

\* onSaveEntry(updatedEntry); localStorage.removeItem(...) for each date
RECURSIVE BulkCalls(_)
BulkCalls(written) ==
    IF written = <<>> THEN <<>>
    ELSE <<SaveCall(Head(written)), RemoveCall(Head(written).date)>>
         \o BulkCalls(Tail(written))

\* variant of BulkRejected without the two future-date checks
BulkRejectedAllowFuture ==
    \/ bulkStartDate = NoDate
    \/ bulkEndDate = NoDate
    \/ StrLess(bulkEndDate, bulkStartDate)
    \/ bulkErrors # {}

BulkRejected ==
    \/ bulkStartDate = NoDate
    \/ bulkEndDate = NoDate
    \/ StrLess(today, bulkStartDate)
    \/ StrLess(today, bulkEndDate)
    \/ StrLess(bulkEndDate, bulkStartDate)
    \/ bulkErrors # {}

handleBulkSave ==
    /\ Quiescent
    /\ showBulkEditModal
    /\ IF BulkRejected
       THEN /\ lastOp' = [kind |-> "handleBulkSave", accepted |-> FALSE,
                          calls |-> <<>>]
            /\ UNCHANGED <<dailyEntries, localStorage, showBulkEditModal,
                           bulkDailyData, bulkErrors, loadDue, commits,
                           uncorrected>>
       ELSE LET dates   == BulkDates(bulkStartDate, bulkEndDate, tz)
                written == [i \in DOMAIN dates |->
                               updatedEntry(dailyEntries, bulkDailyData,
                                            dates[i])]
            IN  /\ dailyEntries' = SaveAll(dailyEntries, written)
                /\ localStorage' = RemoveAll(localStorage, dates)
                /\ showBulkEditModal' = FALSE
                /\ bulkDailyData' = <<>>
                /\ bulkErrors' = {}
                /\ loadDue' = TRUE
                /\ commits' = commits + 1
                /\ lastOp' = [kind |-> "handleBulkSave", accepted |-> TRUE,
                              calls |-> BulkCalls(written),
                              overrides |-> bulkDailyData,
                              before |-> dailyEntries]
                /\ uncorrected' =
                      NotOfDates(uncorrected,
                                 {dates[i] : i \in DOMAIN dates})
    /\ UNCHANGED <<tz, today, initialLeads, dailyData, selectedDate,
                   selectedMonth, errors, isDraft, dateToDelete,
                   bulkStartDate, bulkEndDate, saveDue, loadedFrom, edits,
                   moves>>

----------------------------------------------------------------------------
(* The component *)

Next ==
    \/ RunEffects
    \/ \E f \in EditFields, v \in InputValues : handleNumberChange(f, v)
    \/ \E t \in Reasons : handleDiscardReasonChange(t)
    \/ \E d \in UserDates \cup {NoDate} : setSelectedDate(d)
    \/ \E i \in DOMAIN dailyEntries : handleEditClick(i)
    \/ handleSubmit
    \/ \E i \in DOMAIN dailyEntries : requestDelete(i)
    \/ cancelDelete
    \/ confirmDelete
    \/ openBulkEdit
    \/ cancelBulkEdit
    \/ \E d \in UserDates \cup {NoDate} : setBulkStartDate(d)
    \/ \E d \in UserDates \cup {NoDate} : setBulkEndDate(d)
    \/ \E f \in EditFields, v \in BulkInputValues : handleBulkNumberChange(f, v)
    \/ handleBulkSave

Spec == Init /\ [][Next]_vars

----------------------------------------------------------------------------
(* The ledger and the monthly summary over bounded profiles: the parent     *)
(* hands the mounted component a profile whose store it changed (an insert, *)
(* a replace or a delete of any entry), and the month selector is moved.    *)

InitialLeadsValues == {0, 10}

LedgerDates ==
    {<<2023, 11, 30>>, <<2023, 12, 1>>, <<2023, 12, 31>>, <<2024, 1, 1>>}

\* new, discarded, repique, signed, negotiation
EntryShapes ==
    { [initialState EXCEPT !.newLeads = 5, !.discardedLeads = 1,
                           !.signedLeads = 2, !.negotiationLeads = 1,
                           !.discardReason = "dup"],
      [k \in DOMAIN initialState \ {"repiqueLeads"} |->
          IF k = "signedLeads" THEN 1 ELSE initialState[k]],
      [initialState EXCEPT !.newLeads = 1, !.repiqueLeads = 2],
      [initialState EXCEPT !.discardedLeads = 3, !.signedLeads = 2,
                           !.discardReason = "late"] }

InitLedger ==
    /\ tz = 0
    /\ today = Today
    /\ initialLeads \in InitialLeadsValues
    /\ dailyEntries = <<>>
    /\ localStorage = <<>>
    /\ dailyData = initialState
    /\ selectedDate = today
    /\ selectedMonth = MonthOf(today)
    /\ errors = {}
    /\ isDraft = FALSE
    /\ dateToDelete = NoDate
    /\ showBulkEditModal = FALSE
    /\ bulkStartDate = today
    /\ bulkEndDate = today
    /\ bulkDailyData = <<>>
    /\ bulkErrors = {}
    /\ loadDue = TRUE
    /\ saveDue = TRUE
    /\ loadedFrom = "none"
    /\ lastOp = NoOp
    /\ edits = 0
    /\ moves = 0
    /\ commits = 0
    /\ uncorrected = {}

\* the profile prop changes: the parent saved an entry
profileSaved(entry) ==
    /\ Quiescent /\ NoModal
    /\ HasEntry(dailyEntries, entry.date) \/ Len(dailyEntries) < MaxEntries
    /\ dailyEntries' = onSaveEntry(dailyEntries, entry)
    /\ dailyEntries' # dailyEntries
    /\ loadDue' = TRUE
    /\ UNCHANGED <<uncorrected,
                   tz, today, initialLeads, localStorage, dailyData,
                   selectedDate, selectedMonth, errors, isDraft, dateToDelete,
                   showBulkEditModal, bulkStartDate, bulkEndDate,
                   bulkDailyData, bulkErrors, saveDue, loadedFrom, lastOp,
                   edits, moves, commits>>

\* the profile prop changes: the parent deleted an entry
profileDeleted(date) ==
    /\ Quiescent /\ NoModal
    /\ HasEntry(dailyEntries, date)
    /\ dailyEntries' = onDeleteEntry(dailyEntries, date)
    /\ loadDue' = TRUE
    /\ UNCHANGED <<uncorrected,
                   tz, today, initialLeads, localStorage, dailyData,
                   selectedDate, selectedMonth, errors, isDraft, dateToDelete,
                   showBulkEditModal, bulkStartDate, bulkEndDate,
                   bulkDailyData, bulkErrors, saveDue, loadedFrom, lastOp,
                   edits, moves, commits>>

NextLedger ==
    \/ RunEffects
    \/ \E d \in LedgerDates, shape \in EntryShapes :
          profileSaved(EntryWithDate(shape, d))
    \/ \E d \in LedgerDates : profileDeleted(d)
    \/ \E m \in Months : setSelectedMonth(m)

SpecLedger == InitLedger /\ [][NextLedger]_vars

----------------------------------------------------------------------------
(* The form and its draft cache alone: the component mounts on a browser    *)
(* storage that holds drafts of earlier sessions, the fields are edited and *)
(* the date is switched.                                                    *)

OlderDraft ==
    JSONstringify([initialState EXCEPT !.newLeads = 2, !.discardedLeads = 1,
                                       !.discardReason = "late"])

DraftStores ==
    { <<>>,
      setItem(setItem(<<>>, Today,
                      JSONstringify([initialState EXCEPT !.newLeads = 1])),
              <<2024, 1, 1>>, OlderDraft),
      setItem(setItem(<<>>, <<2023, 12, 31>>, OlderDraft),
              <<2024, 1, 1>>, [wellFormed |-> FALSE, pairs |-> <<>>]) }

InitDrafts ==
    /\ tz \in TZOffsets
    /\ today = Today
    /\ initialLeads = 2
    /\ dailyEntries \in InitialStores
    /\ localStorage \in DraftStores
    /\ dailyData = initialState
    /\ selectedDate = today
    /\ selectedMonth = MonthOf(today)
    /\ errors = {}
    /\ isDraft = FALSE
    /\ dateToDelete = NoDate
    /\ showBulkEditModal = FALSE
    /\ bulkStartDate = today
    /\ bulkEndDate = today
    /\ bulkDailyData = <<>>
    /\ bulkErrors = {}
    /\ loadDue = TRUE
    /\ saveDue = TRUE
    /\ loadedFrom = "none"
    /\ lastOp = [kind |-> "mount", accepted |-> FALSE, calls |-> <<>>,
                 from |-> today, storage |-> localStorage,
                 form |-> initialState]
    /\ edits = 0
    /\ moves = 0
    /\ commits = 0
    /\ uncorrected = {}

NextDrafts ==
    \/ RunEffects
    \/ \E f \in EditFields, v \in InputValues : handleNumberChange(f, v)
    \/ \E t \in Reasons : handleDiscardReasonChange(t)
    \/ \E d \in UserDates \cup {NoDate} : setSelectedDate(d)
    \/ \E i \in DOMAIN dailyEntries : handleEditClick(i)

SpecDrafts == InitDrafts /\ [][NextDrafts]_vars

----------------------------------------------------------------------------
(* Claims *)

\* the entries of ledger L dated before entry i, and the latest of them
EarlierThan(L, i) == {j \in DOMAIN L : StrLess(L[j].date, L[i].date)}

LatestOf(L, I) ==
    CHOOSE j \in I : \A k \in I : ~StrLess(L[j].date, L[k].date)

EarliestOf(L, I) ==
    CHOOSE j \in I : \A k \in I : ~StrLess(L[k].date, L[j].date)

RECURSIVE SumOver(_, _, _)
SumOver(entries, I, field) ==
    IF I = {} THEN 0
    ELSE LET i == CHOOSE x \in I : TRUE
         IN  (IF field \in DOMAIN entries[i] THEN entries[i][field] ELSE 0)
             + SumOver(entries, I \ {i}, field)

\* C1: after any sequence of accepted commits, bulk commits and deletes, the
\* ledger recomputed from the current entries has, read by ascending date,
\* its first startOfDayBalance equal to initialLeads and every later
\* startOfDayBalance equal to the endOfDayBalance of the entry just before it.
C1_BalanceContinuity ==
    LET L == entriesWithCalculatedBalances
    IN  /\ Len(L) = Len(dailyEntries)
        /\ {L[i].date : i \in DOMAIN L}
              = {dailyEntries[i].date : i \in DOMAIN dailyEntries}
        /\ \A i \in DOMAIN L :
              IF EarlierThan(L, i) = {}
              THEN L[i].startOfDayBalance = initialLeads
              ELSE L[i].startOfDayBalance
                      = L[LatestOf(L, EarlierThan(L, i))].endOfDayBalance

C1_Witness ==
    LET L == entriesWithCalculatedBalances
    IN  /\ commits >= 2
        /\ lastOp.kind = "handleBulkSave" /\ lastOp.accepted
        /\ Len(L) >= 3
        /\ \E i \in DOMAIN L :
              /\ EarlierThan(L, i) # {}
              /\ L[i].startOfDayBalance # initialLeads

\* C2: every ledger entry has endOfDayBalance = startOfDayBalance + newLeads
\* + repiqueLeads - discardedLeads - signedLeads, a missing repiqueLeads
\* counting as 0 and nothing clamped at zero; initialLeads 10 with days
\* (+5, 1 discarded, 2 signed) and (+0, 0, 1) gives 10 -> 12 and 12 -> 11.
C2_EndOfDayArithmetic ==
    LET L   == entriesWithCalculatedBalances
        asc == Reverse(L)
        Rep(e) == IF "repiqueLeads" \in DOMAIN e THEN e.repiqueLeads ELSE 0
    IN  /\ \A i \in DOMAIN L :
              L[i].endOfDayBalance
                 = L[i].startOfDayBalance + L[i].newLeads + Rep(L[i])
                   - L[i].discardedLeads - L[i].signedLeads
        /\ ( /\ initialLeads = 10 /\ Len(asc) = 2
             /\ asc[1].newLeads = 5 /\ asc[1].discardedLeads = 1
             /\ asc[1].signedLeads = 2 /\ Rep(asc[1]) = 0
             /\ asc[2].newLeads = 0 /\ asc[2].discardedLeads = 0
             /\ asc[2].signedLeads = 1 /\ Rep(asc[2]) = 0 )
           => ( /\ asc[1].startOfDayBalance = 10 /\ asc[1].endOfDayBalance = 12
                /\ asc[2].startOfDayBalance = 12 /\ asc[2].endOfDayBalance = 11 )

C2_Witness ==
    LET L == entriesWithCalculatedBalances
    IN  /\ Quiescent
        /\ \E i \in DOMAIN L : L[i].endOfDayBalance < 0
        /\ \E i \in DOMAIN L : "repiqueLeads" \notin DOMAIN L[i]
        /\ \E i \in DOMAIN L :
              "repiqueLeads" \in DOMAIN L[i] /\ L[i].repiqueLeads > 0

\* C3: initialLeadsForMonth is the startOfDayBalance of the earliest ledger
\* entry dated in the target month when the month has one; otherwise the
\* endOfDayBalance of the latest entry dated before the month, and
\* initialLeads when no entry is dated before the month.
C3_InitialLeadsForMonth ==
    LET L       == entriesWithCalculatedBalances
        first   == <<selectedMonth[1], selectedMonth[2], 1>>
        inMonth == {i \in DOMAIN L : MonthOf(L[i].date) = selectedMonth}
        before  == {i \in DOMAIN L : StrLess(L[i].date, first)}
    IN  monthlySummary.initialLeadsForMonth =
           IF inMonth # {}
           THEN L[EarliestOf(L, inMonth)].startOfDayBalance
           ELSE IF before # {}
                THEN L[LatestOf(L, before)].endOfDayBalance
                ELSE initialLeads

C3_Witness ==
    LET first == <<selectedMonth[1], selectedMonth[2], 1>>
    IN  /\ Quiescent
        /\ \E i \in DOMAIN dailyEntries :
              dailyEntries[i].date = first
        /\ \E i \in DOMAIN dailyEntries :
              StrLess(dailyEntries[i].date, first)
        /\ monthlySummary.initialLeadsForMonth # initialLeads
        /\ \E i, j \in DOMAIN dailyEntries :
              i < j /\ StrLess(dailyEntries[j].date, dailyEntries[i].date)

\* C4: the summary's newLeads, repiqueLeads, signedLeads, discardedLeads and
\* negotiationLeads are the sums over exactly the entries dated in the target
\* month, finalLeadsForMonth = initialLeadsForMonth + newLeads + repiqueLeads
\* - discardedLeads - signedLeads, and a month without entries has all sums 0
\* and finalLeadsForMonth = initialLeadsForMonth.
C4_MonthSums ==
    LET m   == monthlySummary
        idx == {i \in DOMAIN dailyEntries :
                   MonthOf(dailyEntries[i].date) = selectedMonth}
    IN  /\ \A f \in {"newLeads", "repiqueLeads", "signedLeads",
                     "discardedLeads", "negotiationLeads"} :
              m[f] = SumOver(dailyEntries, idx, f)
        /\ m.finalLeadsForMonth
              = m.initialLeadsForMonth + (m.newLeads + m.repiqueLeads)
                - m.discardedLeads - m.signedLeads
        /\ idx = {} =>
              /\ m.newLeads = 0 /\ m.repiqueLeads = 0 /\ m.signedLeads = 0
              /\ m.discardedLeads = 0 /\ m.negotiationLeads = 0
              /\ m.finalLeadsForMonth = m.initialLeadsForMonth

C4_Witness ==
    /\ Quiescent
    /\ monthlySummary.initialLeadsForMonth = 10
    /\ monthlySummary.newLeads = 5
    /\ monthlySummary.signedLeads = 3
    /\ monthlySummary.discardedLeads = 1
    /\ monthlySummary.finalLeadsForMonth = 11
    /\ \E i \in DOMAIN dailyEntries :
          /\ MonthOf(dailyEntries[i].date) # selectedMonth
          /\ dailyEntries[i].newLeads > 0

\* the onSaveEntry calls of the last handler, in the order issued
SaveCallsOf(op) == SelectSeq(op.calls, LAMBDA c : c.op = "onSaveEntry")

\* C5: when the selected date has both a stored draft and a committed entry,
\* loading populates the form with the draft's values, not the entry's, and
\* marks the state as an unsaved draft.
C5_DraftWinsOverEntry ==
    [][ ( /\ loadDue
          /\ hasItem(localStorage, selectedDate)
          /\ ~JSONthrows(localStorage[selectedDate])
          /\ HasEntry(dailyEntries, selectedDate) )
        => LET pairs == localStorage[selectedDate].pairs
           IN  /\ DOMAIN dailyData' = {pairs[i][1] : i \in DOMAIN pairs}
               /\ \A i \in DOMAIN pairs : dailyData'[pairs[i][1]] = pairs[i][2]
               /\ isDraft' ]_vars

C5_Witness ==
    /\ Quiescent
    /\ loadedFrom = "draft"
    /\ isDraft
    /\ HasEntry(dailyEntries, selectedDate)
    /\ dailyData # FormOfEntry(FindEntry(dailyEntries, selectedDate))

\* C6: when the selected date has no stored draft, once loading has settled
\* the form holds the committed entry of that date if there is one, else the
\* all-zero default, and in both cases isDraft is false until a field changes.
C6_SavedWhenNoDraft ==
    (Quiescent /\ loadedFrom \in {"entry", "default"})
    => /\ dailyData = IF HasEntry(dailyEntries, selectedDate)
                      THEN FormOfEntry(FindEntry(dailyEntries, selectedDate))
                      ELSE initialState
       /\ ~isDraft

\* C7: after an accepted single-day commit for date d the Entry Store has
\* received exactly one write, for d, carrying the form's values, the write
\* coming before the clear, and once the component has settled the Draft Cache
\* holds no draft for d.
C7_SubmitWritesThenClears ==
    (Quiescent /\ lastOp.kind = "handleSubmit" /\ lastOp.accepted)
    => /\ Len(SaveCallsOf(lastOp)) = 1
       /\ lastOp.calls[1].op = "onSaveEntry"
       /\ lastOp.calls[1].date = selectedDate
       /\ \A f \in Counters : lastOp.calls[1].entry[f] = dailyData[f]
       /\ lastOp.calls[2] = RemoveCall(selectedDate)
       /\ ~hasItem(localStorage, selectedDate)

\* C8: an accepted bulk commit over [start, end] issues exactly one Entry
\* Store write for each calendar date d with start <= d <= end, in ascending
\* date order: none skipped, none outside the range, none twice.
\* (UserDates are consecutive calendar days, so the dates of the range are
\* the members of UserDates between the two boundaries.)
C8_BulkWritesExactRange ==
    (lastOp.kind = "handleBulkSave" /\ lastOp.accepted)
    => LET saves == SaveCallsOf(lastOp)
           range == {d \in UserDates : /\ ~StrLess(d, bulkStartDate)
                                       /\ ~StrLess(bulkEndDate, d)}
       IN  /\ {saves[i].date : i \in DOMAIN saves} = range
           /\ Len(saves) = Cardinality(range)
           /\ \A i, j \in DOMAIN saves :
                 i < j => StrLess(saves[i].date, saves[j].date)

\* C9: in a bulk commit every written counter is the override when the bulk
\* form specifies one (an explicit 0 counts), otherwise the value of the
\* existing committed entry of that date, otherwise 0; counters without an
\* override are unchanged on existing entries.
C9_BulkCounterPrecedence ==
    (lastOp.kind = "handleBulkSave" /\ lastOp.accepted)
    => LET saves == SaveCallsOf(lastOp)
           ov    == lastOp.overrides
           old   == lastOp.before
       IN  \A c \in DOMAIN saves :
              /\ FindEntry(dailyEntries, saves[c].date) = saves[c].entry
              /\ \A f \in Counters :
                    saves[c].entry[f] =
                       IF f \in DOMAIN ov /\ ov[f] # <<>> THEN ov[f][1]
                       ELSE IF \E i \in DOMAIN old :
                                  /\ old[i].date = saves[c].date
                                  /\ f \in DOMAIN old[i]
                            THEN LET i == CHOOSE i \in DOMAIN old :
                                             old[i].date = saves[c].date
                                 IN  old[i][f]
                            ELSE 0

C9_Witness ==
    /\ lastOp.kind = "handleBulkSave" /\ lastOp.accepted
    /\ LET saves == SaveCallsOf(lastOp)
           ov    == lastOp.overrides
           old   == lastOp.before
       IN  /\ \E c \in DOMAIN saves : ~HasEntry(old, saves[c].date)
           /\ \E c \in DOMAIN saves, f, g \in Counters :
                 /\ HasEntry(old, saves[c].date)
                 /\ f \in DOMAIN ov /\ ov[f] = <<0>>
                 /\ FindEntry(old, saves[c].date)[f] > 0
                 /\ g \notin DOMAIN ov
                 /\ FindEntry(old, saves[c].date)[g] > 0

\* C10: in every reachable state, starting from an Entry Store that satisfies
\* it, every committed entry with discardedLeads = 0 has an empty
\* discardReason.
C10_NoReasonWithoutDiscards ==
    \A i \in DOMAIN dailyEntries :
       dailyEntries[i].discardedLeads = 0
          => dailyEntries[i].discardReason = ""

\* the state right after an accepted single-day commit, before the effects
\* of the re-render run: dailyData is still the form that was committed
JustSubmitted ==
    lastOp.kind = "handleSubmit" /\ lastOp.accepted /\ loadDue

\* C11: a single-day commit whose form has discardedLeads = 0 writes an entry
\* with an empty discardReason whatever text the form (or a restored draft)
\* held, and a commit with discardedLeads > 0 writes the form's discardReason
\* unchanged.
C11_SubmitCleansStaleReason ==
    JustSubmitted
    => LET written == lastOp.calls[1].entry
       IN  /\ written.discardedLeads = dailyData.discardedLeads
           /\ dailyData.discardedLeads = 0 => written.discardReason = ""
           /\ dailyData.discardedLeads > 0
                 => written.discardReason = dailyData.discardReason

C11_Witness ==
    /\ JustSubmitted
    /\ dailyData.discardedLeads = 0
    /\ dailyData.discardReason # ""
    /\ FindEntry(dailyEntries, selectedDate).discardReason = ""

C11_WitnessKept ==
    /\ JustSubmitted
    /\ dailyData.discardedLeads > 0
    /\ dailyData.discardReason = "late"
    /\ FindEntry(dailyEntries, selectedDate).discardReason = "late"

\* a handler step that issued no call and left the Entry Store and the Draft
\* Cache as they were
NoSideEffect ==
    /\ ~lastOp'.accepted
    /\ lastOp'.calls = <<>>
    /\ dailyEntries' = dailyEntries
    /\ localStorage' = localStorage

NegativeOverride ==
    \E f \in DOMAIN bulkDailyData : IsNegative(bulkDailyData[f])

\* C12: a single-day commit attempted after a negative value was entered in
\* a counter of the form and not corrected, and a bulk commit whose override
\* set holds a negative value, are rejected with no side effect: onSaveEntry
\* is not called for any date and no draft is removed.
C12_NegativeRejected ==
    [][ /\ ( /\ handleSubmit
             /\ \E f \in Counters : <<selectedDate, f>> \in uncorrected )
           => NoSideEffect
        /\ (handleBulkSave /\ NegativeOverride) => NoSideEffect ]_vars

\* the two halves of C12 that the handlers do guarantee: a commit while an
\* error flag is raised, and a bulk commit with a negative override
C12_FlaggedRejected ==
    [][ /\ (handleSubmit /\ errors # {}) => NoSideEffect
        /\ (handleBulkSave /\ NegativeOverride) => NoSideEffect ]_vars

C12_FlaggedWitness ==
    /\ lastOp.kind = "handleSubmit" /\ ~lastOp.accepted
    /\ errors # {}
    /\ selectedDate # NoDate /\ ~StrLess(today, selectedDate)

C12_BulkWitness ==
    /\ lastOp.kind = "handleBulkSave" /\ ~lastOp.accepted
    /\ NegativeOverride
    /\ bulkStartDate = today /\ bulkEndDate = today

IsFuture(date) == date # NoDate /\ StrLess(today, date)

BadBulkRange ==
    \/ IsFuture(bulkStartDate)
    \/ IsFuture(bulkEndDate)
    \/ /\ bulkStartDate # NoDate /\ bulkEndDate # NoDate
       /\ StrLess(bulkEndDate, bulkStartDate)

\* C13: a single-day commit whose date is after today, and a bulk commit
\* whose start or end date is after today or whose start date is after its
\* end date, are rejected before any store mutation: no Entry Store write is
\* issued for any date and no draft is removed.
C13_BadDatesRejected ==
    [][ /\ (handleSubmit /\ IsFuture(selectedDate)) => NoSideEffect
        /\ (handleBulkSave /\ BadBulkRange) => NoSideEffect ]_vars

\* a bulk commit with a future end date, refused although the range starts
\* on a valid date that has a draft and no error flag is raised
C13_Witness ==
    /\ lastOp.kind = "handleBulkSave" /\ ~lastOp.accepted
    /\ bulkErrors = {}
    /\ ~IsFuture(bulkStartDate) /\ IsFuture(bulkEndDate)
    /\ hasItem(localStorage, bulkStartDate)

C13_WitnessSubmit ==
    /\ lastOp.kind = "handleSubmit" /\ ~lastOp.accepted
    /\ errors = {}
    /\ IsFuture(selectedDate)
    /\ hasItem(localStorage, selectedDate)

C13_WitnessOrder ==
    /\ lastOp.kind = "handleBulkSave" /\ ~lastOp.accepted
    /\ bulkErrors = {}
    /\ bulkStartDate # NoDate /\ bulkEndDate # NoDate
    /\ ~IsFuture(bulkStartDate) /\ ~IsFuture(bulkEndDate)
    /\ StrLess(bulkEndDate, bulkStartDate)

\* the discardReason the Entry Store held for a date, "" when it held none
ReasonIn(entries, date) ==
    IF HasEntry(entries, date) THEN FindEntry(entries, date).discardReason
    ELSE ""

DatesBetween(start, end) ==
    {d \in UserDates : ~StrLess(d, start) /\ ~StrLess(end, d)}

\* C14: a bulk commit never changes discardReason: every written entry
\* carries the discardReason of the existing committed entry of its date, or
\* an empty one when the date had no committed entry, whatever overrides were
\* given, and after the commit every date of the range has in the Entry Store
\* the discardReason it had before.
C14_BulkKeepsReason ==
    (lastOp.kind = "handleBulkSave" /\ lastOp.accepted)
    => LET saves == SaveCallsOf(lastOp)
           old   == lastOp.before
       IN  /\ \A c \in DOMAIN saves :
                 saves[c].entry.discardReason = ReasonIn(old, saves[c].date)
           /\ \A d \in DatesBetween(bulkStartDate, bulkEndDate) :
                 ReasonIn(dailyEntries, d) = ReasonIn(old, d)

C14_Witness ==
    /\ lastOp.kind = "handleBulkSave" /\ lastOp.accepted
    /\ \E f \in DOMAIN lastOp.overrides : lastOp.overrides[f] # <<>>
    /\ LET saves == SaveCallsOf(lastOp)
       IN  /\ \E c \in DOMAIN saves :
                 /\ saves[c].date \in DatesBetween(bulkStartDate, bulkEndDate)
                 /\ ReasonIn(lastOp.before, saves[c].date) # ""
                 /\ saves[c].entry.discardReason # ""
           /\ \E c \in DOMAIN saves :
                 /\ ~HasEntry(lastOp.before, saves[c].date)
                 /\ saves[c].entry.discardReason = ""

BulkSettled ==
    Quiescent /\ lastOp.kind = "handleBulkSave" /\ lastOp.accepted

\* C15: after an accepted bulk commit over [start, end] has completed and the
\* component has settled, the Draft Cache holds no draft for any date in the
\* range, including the currently selected date when it lies in the range.
C15_BulkClearsDrafts ==
    BulkSettled
    => \A d \in DatesBetween(bulkStartDate, bulkEndDate) :
          ~hasItem(localStorage, d)

\* what does hold: where the browser is not east of UTC, the drafts of the
\* dates of the range other than the selected one are gone
C15_OtherDraftsCleared ==
    (BulkSettled /\ tz <= 0)
    => \A d \in DatesBetween(bulkStartDate, bulkEndDate) \ {selectedDate} :
          ~hasItem(localStorage, d)

C15_OtherDraftsWitness ==
    /\ BulkSettled /\ tz <= 0
    /\ \E d \in DatesBetween(bulkStartDate, bulkEndDate) \ {selectedDate} :
          \E c \in DOMAIN lastOp.calls : lastOp.calls[c] = RemoveCall(d)
    /\ hasItem(localStorage, selectedDate)

\* the draft of the selected date is back once the component has settled
C15_SelectedDraftBack ==
    (BulkSettled /\ selectedDate # NoDate) => hasItem(localStorage, selectedDate)

DeleteSettled == Quiescent /\ lastOp.kind = "confirmDelete"

\* C16: after a confirmed delete of date d, the Entry Store has been asked to
\* delete d and the Draft Cache holds no draft for d once the component has
\* settled, whether or not d is the currently selected date.
C16_DeleteClearsDraft ==
    DeleteSettled
    => LET d == lastOp.calls[1].date
       IN  /\ lastOp.calls[1] = DeleteCall(d)
           /\ ~HasEntry(dailyEntries, d)
           /\ ~hasItem(localStorage, d)

\* what does hold: the delete is requested, and the draft of d is gone when
\* d is not the selected date
C16_OtherDateCleared ==
    DeleteSettled
    => LET d == lastOp.calls[1].date
       IN  /\ lastOp.calls = <<DeleteCall(d), RemoveCall(d)>>
           /\ ~HasEntry(dailyEntries, d)
           /\ d # selectedDate => ~hasItem(localStorage, d)

C16_OtherDateWitness ==
    /\ DeleteSettled
    /\ lastOp.calls[1].date # selectedDate
    /\ hasItem(localStorage, selectedDate)

\* the draft of a deleted selected date is back once the component settled
C16_SelectedDraftBack ==
    (DeleteSettled /\ lastOp.calls[1].date = selectedDate)
    => /\ hasItem(localStorage, selectedDate)
       /\ dailyData = initialState

\* the form was changed by a field input and no commit, delete or date
\* switch has reloaded it since; the save-draft effect has run
EditedAndSettled == Quiescent /\ loadedFrom = "edited"

\* C17: after every change to a form field, once the save-draft effect has
\* run, the stored draft for the currently selected date equals the current
\* form state: whenever the component is quiescent between a field change and
\* the next commit, delete or date switch, draft[selectedDate] = form state.
C17_DraftShadowsForm ==
    EditedAndSettled
    => /\ hasItem(localStorage, selectedDate)
       /\ ~JSONthrows(localStorage[selectedDate])
       /\ JSONparse(localStorage[selectedDate]) = dailyData
       /\ isDraft

C17_Witness ==
    /\ EditedAndSettled
    /\ edits = MaxEdits
    /\ dailyData.discardedLeads = 2
    /\ dailyData.discardReason = "late"
    /\ dailyData # initialState

Ascending(L) ==
    \A i, j \in DOMAIN L : i < j => StrLess(L[i].date, L[j].date)

Descending(L) ==
    \A i, j \in DOMAIN L : i < j => StrLess(L[j].date, L[i].date)

\* C18 as stated: for every stored order of the entries, the sequence
\* entriesWithCalculatedBalances lists the entries in ascending date order.
C18_LedgerAscending == Ascending(entriesWithCalculatedBalances)

\* C18, amended: for every stored order of the entries, the sequence the fold
\* runs over and annotates is in ascending date order and holds each stored
\* date once; entriesWithCalculatedBalances is that sequence reversed, so it
\* lists the entries in descending date order (most recent first).
C18_LedgerNewestFirst ==
    LET chron == FoldBalances(SortByDate(dailyEntries), initialLeads)
    IN  /\ Ascending(chron)
        /\ Len(chron) = Len(dailyEntries)
        /\ {chron[i].date : i \in DOMAIN chron}
              = {dailyEntries[i].date : i \in DOMAIN dailyEntries}
        /\ entriesWithCalculatedBalances = Reverse(chron)
        /\ Descending(entriesWithCalculatedBalances)

C18_Witness ==
    /\ Quiescent
    /\ Len(dailyEntries) = MaxEntries
    /\ ~Ascending(dailyEntries) /\ ~Descending(dailyEntries)
    /\ Descending(entriesWithCalculatedBalances)

\* the sums the month's entries give, read off the Entry Store
MonthIndex ==
    {i \in DOMAIN dailyEntries :
        MonthOf(dailyEntries[i].date) = selectedMonth}

SignedOfMonth == SumOver(dailyEntries, MonthIndex, "signedLeads")

ReceivedOfMonth ==
    SumOver(dailyEntries, MonthIndex, "newLeads")
    + SumOver(dailyEntries, MonthIndex, "repiqueLeads")

\* the value of a one-digit decimal, in tenths
Tenths(dec) == 10 * dec[1] + dec[2]

\* C19: for every target month, conversionRate is 0 when newLeads_sum +
\* repiqueLeads_sum is 0, and otherwise is the one-digit decimal nearest to
\* 100 * signedLeads_sum / (newLeads_sum + repiqueLeads_sum): it differs from
\* the quotient by at most 0.05 (3 signed out of 5 received gives 60.0).
C19_ConversionRate ==
    LET rate == monthlySummary.conversionRate
        s    == SignedOfMonth
        t    == ReceivedOfMonth
    IN  /\ rate[2] \in 0..9
        /\ t = 0 => rate = <<0, 0>>
        /\ t > 0 => /\ 2 * (Tenths(rate) * t - 1000 * s) <= t
                    /\ 2 * (1000 * s - Tenths(rate) * t) <= t
        /\ (s = 3 /\ t = 5) => rate = <<60, 0>>

C19_Witness ==
    /\ Quiescent
    /\ SignedOfMonth = 3 /\ ReceivedOfMonth = 5
    /\ monthlySummary.conversionRate = <<60, 0>>

\* a quotient that is not a one-digit decimal and rounds upwards
C19_WitnessRounded ==
    /\ Quiescent
    /\ SignedOfMonth = 2 /\ ReceivedOfMonth = 3
    /\ monthlySummary.conversionRate = <<66, 7>>

\* signed contracts in a month that received no lead
C19_WitnessNoneReceived ==
    /\ Quiescent
    /\ SignedOfMonth > 0 /\ ReceivedOfMonth = 0
    /\ monthlySummary.conversionRate = <<0, 0>>

\* every counter a record holds is a non-negative number
NonNegative(rec) == \A f \in Counters \cap DOMAIN rec : rec[f] >= 0

\* C20: starting from an Entry Store and Draft Cache whose counters are all
\* non-negative, after any sequence of field inputs (negative ones included),
\* date switches, single-day commits and bulk commits, every counter of the
\* form state, of every draft written and of every entry passed to
\* onSaveEntry is >= 0.
C20_CountersNonNegative ==
    /\ NonNegative(dailyData)
    /\ \A d \in DOMAIN localStorage :
          ~JSONthrows(localStorage[d])
             => NonNegative(JSONparse(localStorage[d]))
    /\ \A c \in DOMAIN lastOp.calls :
          lastOp.calls[c].op = "onSaveEntry"
             => NonNegative(lastOp.calls[c].entry)
    /\ \A i \in DOMAIN dailyEntries : NonNegative(dailyEntries[i])

\* a bulk commit with an override, accepted after a negative value was
\* typed into the form of a date it does not write
C20_Witness ==
    /\ lastOp.kind = "handleBulkSave" /\ lastOp.accepted
    /\ uncorrected # {}
    /\ \E f \in DOMAIN lastOp.overrides : lastOp.overrides[f] # <<>>
    /\ SaveCallsOf(lastOp) # <<>>

\* a negative input in the form: flagged, stored as 0 in form and draft
C20_WitnessForm ==
    /\ Quiescent
    /\ errors # {}
    /\ \A f \in errors : dailyData[f] = 0
    /\ hasItem(localStorage, selectedDate)
    /\ JSONparse(localStorage[selectedDate]) = dailyData

\* the load effect last found a draft it could not parse, and the effects
\* have settled
CorruptSettled == Quiescent /\ loadedFrom = "corrupt"

SavedOrDefault ==
    IF HasEntry(dailyEntries, selectedDate)
    THEN FormOfEntry(FindEntry(dailyEntries, selectedDate))
    ELSE initialState

\* C21: when the stored draft for the selected date cannot be parsed, loading
\* does not fail: the corrupt draft is discarded and the form is populated
\* from the committed entry for that date if one exists, otherwise from the
\* all-zero/empty default, and the state is marked saved (not a draft).
C21_CorruptDraftFallsBack ==
    CorruptSettled
    => /\ dailyData = SavedOrDefault
       /\ ~(hasItem(localStorage, selectedDate)
             /\ JSONthrows(localStorage[selectedDate]))
       /\ ~isDraft

\* what does hold: the form falls back to the entry or the default and the
\* unparsable text is no longer in storage
C21_FormFallsBack ==
    CorruptSettled
    => /\ dailyData = SavedOrDefault
       /\ ~(hasItem(localStorage, selectedDate)
             /\ JSONthrows(localStorage[selectedDate]))

C21_FormWitnessEntry ==
    CorruptSettled /\ HasEntry(dailyEntries, selectedDate)

C21_FormWitnessDefault ==
    CorruptSettled /\ ~HasEntry(dailyEntries, selectedDate)

\* the state is marked a draft, and a draft is stored, once settled
C21_MarkedDraft ==
    CorruptSettled
    => /\ isDraft
       /\ hasItem(localStorage, selectedDate)
       /\ JSONparse(localStorage[selectedDate]) = dailyData

\* C22: building the ledger is pure: building it twice from the same
\* initialLeads and entry collection gives identical sequences, and building
\* it (and deriving the monthly report from it) leaves profile.dailyEntries
\* unchanged in both content and order.
C22_LedgerPure ==
    LET start  == [profile |-> dailyEntries]
        first  == LedgerMemo(start, initialLeads)
        report == ReportMemo(first, selectedMonth)
        second == LedgerMemo([profile |-> report.profile], initialLeads)
    IN  /\ first.profile = dailyEntries
        /\ report.profile = dailyEntries
        /\ second.profile = dailyEntries
        /\ second.entriesWithBalance = first.entriesWithBalance
        /\ first.entriesWithBalance = entriesWithCalculatedBalances
        /\ report.entriesWithBalance = first.entriesWithBalance

\* a store kept in an order that is not the ledger's, with a report that is
\* not the whole ledger
C22_Witness ==
    /\ Quiescent
    /\ Len(dailyEntries) = MaxEntries
    /\ ~Ascending(dailyEntries) /\ ~Descending(dailyEntries)
    /\ Len(reportEntries) = 2
    /\ Ascending(reportEntries)

\* the ledger entries dated in the selected month
LedgerOfMonth ==
    {i \in DOMAIN entriesWithCalculatedBalances :
        MonthOf(entriesWithCalculatedBalances[i].date) = selectedMonth}

\* C23: the Monthly Aggregator and the Ledger Builder agree: for every entry
\* set and every target month that contains at least one entry,
\* finalLeadsForMonth equals the endOfDayBalance of the latest ledger entry
\* dated in that month.
C23_FinalIsLastBalance ==
    LET L == entriesWithCalculatedBalances
    IN  LedgerOfMonth # {}
        => monthlySummary.finalLeadsForMonth
              = L[LatestOf(L, LedgerOfMonth)].endOfDayBalance

\* a month with two entries, one of them with signed contracts, and an entry
\* in a later month that moves the balance on
C23_Witness ==
    LET L == entriesWithCalculatedBalances
    IN  /\ Quiescent
        /\ Cardinality(LedgerOfMonth) = 2
        /\ \E i \in LedgerOfMonth : L[i].signedLeads > 0
        /\ monthlySummary.finalLeadsForMonth
              # monthlySummary.initialLeadsForMonth
        /\ \E i \in DOMAIN L :
              /\ \A j \in LedgerOfMonth : StrLess(L[j].date, L[i].date)
              /\ L[i].endOfDayBalance # monthlySummary.finalLeadsForMonth

\* the calendar month immediately after a month
NextMonth(month) ==
    IF month[2] = 12 THEN <<month[1] + 1, 1>> ELSE <<month[1], month[2] + 1>>

SummaryOf(month) == SummarizeMonth(dailyEntries, initialLeads, month)

HasEntryIn(month) ==
    \E i \in DOMAIN dailyEntries : MonthOf(dailyEntries[i].date) = month

\* C24: balances carry across month boundaries: for every entry set and
\* every month M, finalLeadsForMonth of M equals initialLeadsForMonth of the
\* calendar month immediately after M (including across a year change and
\* when either month has no entries).
C24_MonthsChain ==
    /\ monthlySummary = SummaryOf(selectedMonth)
    /\ \A m \in Months :
          SummaryOf(m).finalLeadsForMonth
             = SummaryOf(NextMonth(m)).initialLeadsForMonth

\* December to January, both with entries, the balance moving in December
C24_Witness ==
    /\ Quiescent
    /\ selectedMonth = <<2023, 12>>
    /\ NextMonth(selectedMonth) = <<2024, 1>>
    /\ HasEntryIn(selectedMonth) /\ HasEntryIn(NextMonth(selectedMonth))
    /\ monthlySummary.finalLeadsForMonth # monthlySummary.initialLeadsForMonth
    /\ monthlySummary.finalLeadsForMonth # initialLeads

\* a month without entries between the entries before it and the month after
C24_WitnessEmptyMonth ==
    /\ Quiescent
    /\ selectedMonth = <<2023, 12>>
    /\ ~HasEntryIn(selectedMonth)
    /\ HasEntryIn(<<2023, 11>>) /\ HasEntryIn(<<2024, 1>>)
    /\ monthlySummary.finalLeadsForMonth # initialLeads

\* the net flow of a date in a store, 0 when the date has no entry
NetFlow(entries, date) ==
    IF HasEntry(entries, date)
    THEN LET e == FindEntry(entries, date)
         IN  e.newLeads + (IF "repiqueLeads" \in DOMAIN e
                           THEN e.repiqueLeads ELSE 0)
             - e.discardedLeads - e.signedLeads
    ELSE 0

DatesOf(entries) == {entries[i].date : i \in DOMAIN entries}

\* the dates whose committed entry the last handler inserted, replaced or
\* deleted
ChangedDates ==
    {d \in DatesOf(lastOp.before) \cup DatesOf(dailyEntries) :
        \/ HasEntry(lastOp.before, d) # HasEntry(dailyEntries, d)
        \/ /\ HasEntry(lastOp.before, d) /\ HasEntry(dailyEntries, d)
           /\ FindEntry(lastOp.before, d) # FindEntry(dailyEntries, d)}

OneDateChanged ==
    /\ lastOp.accepted
    /\ Cardinality(ChangedDates) = 1

\* the ledger row of a date
RowOf(L, date) == L[CHOOSE i \in DOMAIN L : L[i].date = date]

\* C25: inserting, replacing or deleting the committed entry of date d
\* leaves startOfDayBalance and endOfDayBalance of every entry dated before d
\* unchanged, and changes startOfDayBalance and endOfDayBalance of every
\* entry dated after d by one and the same amount: the change in d's net flow
\* (newLeads + repiqueLeads - discardedLeads - signedLeads, taken as 0 when d
\* has no entry).
C25_ChangeShiftsLaterBalances ==
    OneDateChanged
    => LET d     == CHOOSE x \in ChangedDates : TRUE
           old   == BuildLedger(lastOp.before, initialLeads)
           new   == entriesWithCalculatedBalances
           delta == NetFlow(dailyEntries, d) - NetFlow(lastOp.before, d)
       IN  \A e \in (DatesOf(lastOp.before) \cap DatesOf(dailyEntries)) \ {d} :
              LET shift == IF StrLess(e, d) THEN 0 ELSE delta
              IN  /\ RowOf(new, e).startOfDayBalance
                        = RowOf(old, e).startOfDayBalance + shift
                  /\ RowOf(new, e).endOfDayBalance
                        = RowOf(old, e).endOfDayBalance + shift

\* an entry inserted between two others, with a net flow that is not 0
C25_Witness ==
    /\ OneDateChanged
    /\ lastOp.kind = "handleSubmit"
    /\ LET d == CHOOSE x \in ChangedDates : TRUE
       IN  /\ ~HasEntry(lastOp.before, d)
           /\ NetFlow(dailyEntries, d) # 0
           /\ \E e \in DatesOf(lastOp.before) : StrLess(e, d)
           /\ \E e \in DatesOf(lastOp.before) : StrLess(d, e)

C25_WitnessReplace ==
    /\ OneDateChanged
    /\ LET d == CHOOSE x \in ChangedDates : TRUE
       IN  /\ HasEntry(lastOp.before, d) /\ HasEntry(dailyEntries, d)
           /\ NetFlow(dailyEntries, d) # NetFlow(lastOp.before, d)
           /\ \E e \in DatesOf(dailyEntries) : StrLess(d, e)

C25_WitnessDelete ==
    /\ OneDateChanged
    /\ lastOp.kind = "confirmDelete"
    /\ LET d == CHOOSE x \in ChangedDates : TRUE
       IN  /\ NetFlow(lastOp.before, d) # 0
           /\ \E e \in DatesOf(dailyEntries) : StrLess(d, e)

\* the component mounted or the date was switched, and the effects settled
SwitchSettled ==
    Quiescent /\ lastOp.kind \in {"mount", "setSelectedDate"}

\* what the claim expects the form of date B to hold, given the storage as
\* it was before the switch
LoadedFor(storage, date) ==
    IF hasItem(storage, date) /\ ~JSONthrows(storage[date])
    THEN JSONparse(storage[date])
    ELSE IF HasEntry(dailyEntries, date)
         THEN FormOfEntry(FindEntry(dailyEntries, date))
         ELSE initialState

\* C26: when the selected date is switched from A to B (or the component
\* mounts on B) and the load and save-draft effects have settled, the stored
\* draft for B holds the data loaded for B (B's earlier draft if it had one,
\* else B's committed entry, else zeros) and not A's form data, an earlier
\* draft stored for B is not lost, and the stored draft for A is left
\* unchanged by the switch.
C26_SwitchKeepsDrafts ==
    SwitchSettled
    => LET A   == lastOp.from
           B   == selectedDate
           old == lastOp.storage
       IN  /\ dailyData = LoadedFor(old, B)
           /\ hasItem(localStorage, B)
           /\ ~JSONthrows(localStorage[B])
           /\ JSONparse(localStorage[B]) = LoadedFor(old, B)
           /\ A # B => /\ hasItem(localStorage, A) = hasItem(old, A)
                       /\ hasItem(old, A) => localStorage[A] = old[A]

\* a switch to a date that had a draft of its own, away from a form that
\* holds other data and has its own draft
C26_Witness ==
    /\ SwitchSettled
    /\ lastOp.kind = "setSelectedDate"
    /\ hasItem(lastOp.storage, selectedDate)
    /\ ~JSONthrows(lastOp.storage[selectedDate])
    /\ HasEntry(dailyEntries, lastOp.from)
    /\ lastOp.form # dailyData
    /\ lastOp.form # initialState
    /\ hasItem(localStorage, lastOp.from)
    /\ JSONparse(localStorage[lastOp.from]) = lastOp.form

\* a switch to a date with a committed entry and no draft
C26_WitnessEntry ==
    /\ SwitchSettled
    /\ lastOp.kind = "setSelectedDate"
    /\ ~hasItem(lastOp.storage, selectedDate)
    /\ HasEntry(dailyEntries, selectedDate)
    /\ lastOp.form # dailyData

\* a mount on a date that had a draft
C26_WitnessMount ==
    /\ SwitchSettled
    /\ lastOp.kind = "mount"
    /\ hasItem(lastOp.storage, selectedDate)
    /\ dailyData # initialState

\* a step in which the handler named kind committed
Committed(kind) ==
    /\ commits' = commits + 1
    /\ lastOp'.kind = kind

\* the dates the step touched: those its calls name and those whose stored
\* draft it changed
Touched ==
    {lastOp'.calls[i].date : i \in DOMAIN lastOp'.calls}
    \cup {d \in DOMAIN localStorage \cup DOMAIN localStorage' :
             \/ hasItem(localStorage', d) # hasItem(localStorage, d)
             \/ /\ hasItem(localStorage, d)
                /\ hasItem(localStorage', d)
                /\ localStorage'[d] # localStorage[d]}

SubmitScoped == Committed("handleSubmit") => Touched \subseteq {selectedDate}

DeleteScoped == Committed("confirmDelete") => Touched \subseteq {dateToDelete}

BulkScoped ==
    Committed("handleBulkSave")
    => \A d \in Touched : /\ ~StrLess(d, bulkStartDate)
                          /\ ~StrLess(bulkEndDate, d)

CancelScoped ==
    (dateToDelete # NoDate /\ lastOp'.kind = "cancelDelete"
       /\ dateToDelete' = NoDate)
    => /\ lastOp'.calls = <<>>
       /\ dailyEntries' = dailyEntries
       /\ localStorage' = localStorage

\* C27: writes are scoped to their dates: a single-day commit for d and a
\* confirmed delete of d issue no Entry Store write or delete and no draft
\* removal for any date other than d, a bulk commit over [start, end] issues
\* none for any date outside the range, and cancelling the delete
\* confirmation changes neither the Entry Store nor the Draft Cache.
C27_WritesScoped ==
    [][SubmitScoped /\ DeleteScoped /\ BulkScoped /\ CancelScoped]_vars

\* C27, the part that holds in every timezone: the single-day commit, the
\* confirmed delete and the cancelled delete
C27_SingleDayScoped ==
    [][SubmitScoped /\ DeleteScoped /\ CancelScoped]_vars

\* C27, bulk commit: at or west of UTC no call leaves the range
C27_BulkScopedWestOfUTC ==
    [][tz <= 0 => BulkScoped]_vars

\* a delete was confirmed while a draft of another date was stored
C27_Witness ==
    /\ lastOp.kind = "confirmDelete"
    /\ lastOp.calls # <<>>
    /\ \E d \in DOMAIN localStorage : d # lastOp.calls[1].date

\* a single-day commit was accepted while a draft of another date was stored
C27_WitnessSubmit ==
    /\ lastOp.kind = "handleSubmit"
    /\ lastOp.accepted
    /\ \E d \in DOMAIN localStorage : d # lastOp.calls[1].date

\* at or west of UTC a bulk commit wrote two days or more
C27_WitnessBulk ==
    /\ lastOp.kind = "handleBulkSave"
    /\ lastOp.accepted
    /\ tz <= 0
    /\ Len(lastOp.calls) >= 4

\* a delete was cancelled while both stores held something
C27_WitnessCancel ==
    /\ lastOp.kind = "cancelDelete"
    /\ localStorage # <<>>
    /\ dailyEntries # <<>>

\* east of UTC a bulk commit over one day has written the day before
C27_BulkLeftRange ==
    /\ lastOp.kind = "handleBulkSave"
    /\ lastOp.accepted
    /\ tz > 0
    /\ \E i \in DOMAIN lastOp.calls : StrLess(lastOp.calls[i].date, bulkStartDate)

====
